---------------------------- MODULE Spec2Model ----------------------------
(***************************************************************************)
(* A model of difx / claudiff: the streaming explanation pipeline.         *)
(*                                                                         *)
(*   - the incremental renderer of cmd/root.go (the goroutine of Run,      *)
(*     cleanIncompleteEscapeSequences, convertEscapeSequences);            *)
(*   - the stream decoders and collectors of diff/llm.go                   *)
(*     (handleClaudeStreamingResponse, handleAzureOpenAIStreamingResponse) *)
(*     and the non-streaming handlers;                                     *)
(*   - rootCmd.Run, which ties them together.                              *)
(*                                                                         *)
(* Text is a sequence of one-character strings.  The string "ESC" stands   *)
(* for the single control byte 0x1b; the backslash is "\\".                *)
(***************************************************************************)
EXTENDS Integers, Sequences, FiniteSets, TLC

VARIABLES
    \* ---- the renderer goroutine (cmd/root.go 58-85)
    rpc,            \* "idle" | "recv" | "process" | "done"
    rchunk,         \* the chunk received and not yet processed
    buffer,         \* strings.Builder buffer: all chunks so far
    lastProcessed,  \* the resolved text recorded as flushed
    term,           \* everything written to standard output so far
    \* ---- the chunk source of the renderer-only specification
    segs,           \* the segments src was built from
    src,            \* the whole text the far end will send
    pos,            \* how many characters of src were delivered
    nchunks,        \* how many chunks were delivered
    outputClosed,   \* close(outputChan) has happened
    \* ---- history of the renderer
    wrote,          \* the last write of the loop body
    flushedBefore,  \* lastProcessed before the last loop body
    \* ---- rootCmd.Run, and GetExplanation running in it (the collector)
    mainPc,         \* where the main goroutine stands
    cfg,            \* the configuration loaded
    diffOutput,     \* what git diff printed
    fullResponse,   \* strings.Builder of the collector
    geText,         \* the string GetExplanation returned
    geErr,          \* the error GetExplanation returned
    stderr,         \* what was written to standard error
    exitCode,       \* -1 while the process runs
    \* ---- the producer goroutine of the streaming handlers (diff/llm.go)
    ppc,            \* where the producer stands
    resp,           \* the HTTP response
    eventType,      \* var eventType string
    ptext,          \* the text delta being handed over
    perr,           \* the error being sent on errChan
    pchoices,       \* the choices of the Azure line not yet processed
    contentClosed,  \* close(contentChan) has happened
    \* ---- the network
    wire,           \* lines sent by the server and not yet read
    net,            \* "open" | "eof" | "err": the state of the body
    sent,           \* what the lines of the Azure stream sent so far carry
    \* ---- the command line
    argv,           \* the arguments given after the program name
    args,           \* the args cobra hands to Run
    gitArgs,        \* the arguments of the git command RunGitDiff built
    apc,            \* "start" | "parsed" | "error": cobra's flag parsing
    \* ---- history
    requests,       \* HTTP requests issued
    decoded,        \* the non-empty text deltas decoded, in order
    cbCalls,        \* the arguments of the callback calls, in order
    consumed,       \* the chunks the range loop received, in order
    sentDeltas,     \* text deltas the server put on the wire
    lastRead,       \* the last line the producer read: the event type it was
                    \* read under, its kind, the form of its payload, and
                    \* what the decoder did with it
    stopRead        \* the end of the message was read

rvars == <<rpc, rchunk, buffer, lastProcessed, term, outputClosed, wrote,
           flushedBefore>>

\* the chunk source of the renderer-only specification
fvars == <<segs, src, pos, nchunks>>

mvars == <<mainPc, cfg, diffOutput, fullResponse, geText, geErr, stderr, exitCode>>

prodvars == <<ppc, resp, eventType, ptext, perr, pchoices, contentClosed>>

netvars == <<wire, net, sent>>

hvars == <<requests, decoded, cbCalls, consumed, sentDeltas, lastRead, stopRead>>

avars == <<argv, args, gitArgs, apc>>

vars == <<rvars, fvars, mvars, prodvars, netvars, hvars, avars>>

-----------------------------------------------------------------------------
(* Strings                                                                 *)

Prefix(s, n) == SubSeq(s, 1, n)
Drop(s, n) == SubSeq(s, n + 1, Len(s))

\* strings.HasPrefix
HasPrefix(s, p) == Len(p) <= Len(s) /\ Prefix(s, Len(p)) = p

\* strings.HasSuffix
HasSuffix(s, p) == Len(p) <= Len(s) /\ Drop(s, Len(s) - Len(p)) = p

IsPrefixOf(p, s) == HasPrefix(s, p)

\* whether p occurs in s
Contains(s, p) == \E i \in 0..(Len(s) - Len(p)) : HasPrefix(Drop(s, i), p)

NL == "\n"
ESC == "ESC"

\* the literal four characters \033
LitEsc == <<"\\", "0", "3", "3">>

ADD_OPEN == <<"[", "A", "D", "D", "]">>
ADD_CLOSE == <<"[", "/", "A", "D", "D", "]">>
DEL_OPEN == <<"[", "D", "E", "L", "]">>
DEL_CLOSE == <<"[", "/", "D", "E", "L", "]">>
GREEN_START == <<"G", "R", "E", "E", "N", "_", "S", "T", "A", "R", "T">>
GREEN_END == <<"G", "R", "E", "E", "N", "_", "E", "N", "D">>
RED_START == <<"R", "E", "D", "_", "S", "T", "A", "R", "T">>
RED_END == <<"R", "E", "D", "_", "E", "N", "D">>

\* color.New(color.FgGreen, color.Bold) and color.New(color.FgRed, color.Bold):
\* the escape sequences Sprint wraps its argument in
GreenCode == <<ESC, "[", "3", "2", ";", "1", "m">>
RedCode == <<ESC, "[", "3", "1", ";", "1", "m">>
ResetCode == <<ESC, "[", "0", "m">>

\* c.Sprint(s) with color.NoColor = false
Sprint(code, s) == code \o s \o ResetCode

\* strings.ReplaceAll(text, old, new): leftmost, non-overlapping
RECURSIVE ReplaceAll(_, _, _)
ReplaceAll(text, old, new) ==
    IF Len(text) < Len(old) THEN text
    ELSE IF HasPrefix(text, old)
         THEN new \o ReplaceAll(Drop(text, Len(old)), old, new)
         ELSE <<Head(text)>> \o ReplaceAll(Tail(text), old, new)

\* The length of the shortest inner text x such that s = x \o close \o ..., with
\* no line break in x ('.' does not match "\n"); -1 when there is none.
\* This is the lazy group (.*?) followed by the closing tag.
LazyInner(s, close) ==
    LET ok == {j \in 0..(Len(s) - Len(close)) :
                  /\ HasPrefix(Drop(s, j), close)
                  /\ \A k \in 1..j : s[k] # NL}
    IN IF ok = {} THEN -1 ELSE CHOOSE j \in ok : \A k \in ok : j <= k

\* regexp open(.*?)close with ReplaceAllStringFunc(result, func(match) Sprint(submatch 1)):
\* leftmost matches, each the shortest from its start, not overlapping
RECURSIVE ReplaceSpans(_, _, _, _)
ReplaceSpans(text, open, close, code) ==
    IF text = <<>> THEN <<>>
    ELSE LET rest == Drop(text, Len(open))
             j == IF HasPrefix(text, open) THEN LazyInner(rest, close) ELSE -1
         IN IF j >= 0
            THEN Sprint(code, Prefix(rest, j))
                 \o ReplaceSpans(Drop(rest, j + Len(close)), open, close, code)
            ELSE <<Head(text)>> \o ReplaceSpans(Tail(text), open, close, code)

\* convertEscapeSequences
convertEscapeSequences(text) ==
    LET r0 == ReplaceAll(text, LitEsc, <<ESC>>)
        r1 == ReplaceSpans(r0, ADD_OPEN, ADD_CLOSE, GreenCode)
        r2 == ReplaceSpans(r1, DEL_OPEN, DEL_CLOSE, RedCode)
        r3 == ReplaceSpans(r2, GREEN_START, GREEN_END, GreenCode)
        r4 == ReplaceSpans(r3, RED_START, RED_END, RedCode)
    IN r4

\* The table of cleanIncompleteEscapeSequences, in the order of its tests.
TrimTable ==
    << <<"\\">>,
       <<"\\", "0">>,
       <<"\\", "0", "3">>,
       <<"\\", "0", "3", "3">>,
       <<"\\", "0", "3", "3", "[">>,
       <<"\\", "0", "3", "3", "[", "3">>,
       <<"\\", "0", "3", "3", "[", "3", "2">>,
       <<"\\", "0", "3", "3", "[", "3", "2", ";">>,
       <<"\\", "0", "3", "3", "[", "3", "2", ";", "1">>,
       <<"\\", "0", "3", "3", "[", "3", "1">>,
       <<"\\", "0", "3", "3", "[", "3", "1", ";">>,
       <<"\\", "0", "3", "3", "[", "3", "1", ";", "1">>,
       <<"[">>,
       <<"[", "A">>,
       <<"[", "A", "D">>,
       <<"[", "A", "D", "D">>,
       <<"[", "D">>,
       <<"[", "D", "E">>,
       <<"[", "D", "E", "L">>,
       <<"G">>,
       <<"G", "R">>,
       GREEN_START,
       <<"R">>,
       <<"R", "E">>,
       RED_START >>

MutCleanNothing(text) == text

\* cleanIncompleteEscapeSequences: the first suffix of the table that the text
\* ends with is cut off; a text ending with none of them is returned as it is
cleanIncompleteEscapeSequences(text) ==
    LET hits == {i \in 1..Len(TrimTable) : HasSuffix(text, TrimTable[i])}
    IN IF hits = {} THEN text
       ELSE LET i == CHOOSE i \in hits : \A k \in hits : i <= k
            IN Prefix(text, Len(text) - Len(TrimTable[i]))

-----------------------------------------------------------------------------
(* The renderer goroutine                                                  *)

\* lines 67-73: the resolved text of the raw text accumulated so far
Resolve(raw) == convertEscapeSequences(cleanIncompleteEscapeSequences(raw))

\* lines 76-77: the part of the resolved text that is written
NewPart(flushed, processedText) ==
    IF Len(flushed) < Len(processedText)
    THEN Drop(processedText, Len(flushed))
    ELSE <<>>

\* line 79: what is recorded as flushed after the loop body
NextLastProcessed(flushed, processedText) ==
    IF Len(flushed) < Len(processedText) THEN processedText ELSE flushed

\* line 62: the range loop receives a chunk from outputChan
RendererRecv(chunk) ==
    /\ rpc = "recv"
    /\ rpc' = "process"
    /\ rchunk' = chunk
    /\ UNCHANGED <<buffer, lastProcessed, term, outputClosed, wrote, flushedBefore>>

\* lines 63-80: the loop body
RendererProcess ==
    /\ exitCode = -1
    /\ rpc = "process"
    /\ LET raw == buffer \o rchunk
           processedText == Resolve(raw)
       IN /\ buffer' = raw
          /\ wrote' = NewPart(lastProcessed, processedText)
          /\ term' = term \o NewPart(lastProcessed, processedText)
          /\ lastProcessed' = NextLastProcessed(lastProcessed, processedText)
    /\ flushedBefore' = lastProcessed
    /\ rchunk' = <<>>
    /\ rpc' = "recv"
    /\ UNCHANGED outputClosed
    /\ UNCHANGED <<fvars, avars, mvars, prodvars, netvars, hvars>>

\* lines 62, 84: the channel is closed, the loop ends, fmt.Println()
RendererFinish ==
    /\ exitCode = -1
    /\ rpc = "recv"
    /\ outputClosed
    /\ term' = term \o <<NL>>
    /\ rpc' = "done"
    /\ UNCHANGED <<rchunk, buffer, lastProcessed, outputClosed, wrote,
                   flushedBefore>>
    /\ UNCHANGED <<fvars, avars, mvars, prodvars, netvars, hvars>>

-----------------------------------------------------------------------------
(* The renderer alone, fed a text cut into chunks in every possible way    *)

\* at most MaxSegs segments make a text, cut into at most MaxChunks chunks
MaxSegs == 2
MaxChunks == 3

Plain(t) == [k |-> "plain", t |-> t]
Add(t) == [k |-> "add", t |-> t]
Del(t) == [k |-> "del", t |-> t]
Open(t) == [k |-> "open", t |-> t]
EscAdd(t) == [k |-> "escadd", t |-> t]
EscDel(t) == [k |-> "escdel", t |-> t]

\* what the far end may send: plain characters, well-formed spans, and
\* opening markers that are never closed
Segments ==
    { Plain(<<"x">>), Plain(<<"R">>),
      Add(<<"x">>), Del(<<"y">>), Add(<<NL>>),
      Open(ADD_OPEN), Open(GREEN_START) }

SegText(g) ==
    CASE g.k = "plain" -> g.t
      [] g.k = "add" -> ADD_OPEN \o g.t \o ADD_CLOSE
      [] g.k = "del" -> DEL_OPEN \o g.t \o DEL_CLOSE
      [] g.k = "open" -> g.t
      [] g.k = "escadd" -> LitEsc \o <<"[", "3", "2", ";", "1", "m">> \o g.t
                           \o LitEsc \o <<"[", "0", "m">>
      [] g.k = "escdel" -> LitEsc \o <<"[", "3", "1", ";", "1", "m">> \o g.t
                           \o LitEsc \o <<"[", "0", "m">>

RECURSIVE Flatten(_)
Flatten(gs) == IF gs = <<>> THEN <<>> ELSE SegText(Head(gs)) \o Flatten(Tail(gs))

SegSeqs == UNION {[1..n -> Segments] : n \in 1..MaxSegs}

\* no error, no response, no line
NoRead == [et |-> "", kind |-> "none", form |-> "none", act |-> "none"]
NoError == [kind |-> "none", code |-> 0, body |-> [form |-> "none", items |-> <<>>],
            data |-> "", name |-> ""]
NoResponse == [status |-> 0, body |-> [form |-> "none", items |-> <<>>]]

\* the rest of the program does not run in the renderer-only specification
Idle ==
    /\ mainPc = "collect"
    /\ cfg = [ActiveModel |-> "claude", Streaming |-> TRUE, hasKey |-> TRUE]
    /\ diffOutput = "diff --git"
    /\ fullResponse = <<>>
    /\ geText = <<>>
    /\ geErr = NoError
    /\ stderr = <<>>
    /\ exitCode = -1
    /\ ppc = "none"
    /\ resp = NoResponse
    /\ eventType = ""
    /\ ptext = <<>>
    /\ perr = NoError
    /\ pchoices = <<>>
    /\ contentClosed = FALSE
    /\ wire = <<>>
    /\ net = "open"
    /\ sent = <<>>
    /\ requests = 0
    /\ decoded = <<>>
    /\ cbCalls = <<>>
    /\ sentDeltas = 0
    /\ lastRead = NoRead
    /\ stopRead = FALSE
    /\ argv = <<>>
    /\ args = <<>>
    /\ gitArgs = <<"diff">>
    /\ apc = "parsed"

RStart ==
    /\ src = Flatten(segs)
    /\ pos = 0
    /\ nchunks = 0
    /\ outputClosed = FALSE
    /\ rpc = "recv"
    /\ rchunk = <<>>
    /\ buffer = <<>>
    /\ lastProcessed = <<>>
    /\ term = <<>>
    /\ wrote = <<>>
    /\ flushedBefore = <<>>
    /\ consumed = <<>>
    /\ Idle

\* the callback sends the next chunk of the text on outputChan (line 89) and
\* the range loop receives it (line 62)
RFeed ==
    \E n \in 1..(Len(src) - pos) :
        /\ ~outputClosed
        /\ nchunks < MaxChunks
        /\ nchunks = MaxChunks - 1 => n = Len(src) - pos
        /\ RendererRecv(SubSeq(src, pos + 1, pos + n))
        /\ pos' = pos + n
        /\ nchunks' = nchunks + 1
        /\ UNCHANGED <<consumed, segs, src, mvars, prodvars, netvars, hvars, avars>>

\* line 100: close(outputChan) once the whole text was sent
RClose ==
    /\ pos = Len(src)
    /\ rpc = "recv"
    /\ ~outputClosed
    /\ outputClosed' = TRUE
    /\ UNCHANGED <<rpc, rchunk, buffer, lastProcessed, term, wrote,
                   flushedBefore>>
    /\ UNCHANGED <<fvars, avars, mvars, prodvars, netvars, hvars>>

RInit == segs \in SegSeqs /\ RStart

RNext == RFeed \/ RendererProcess \/ RClose \/ RendererFinish

SpecRender == RInit /\ [][RNext]_vars

\* The renderer alone, fed texts in the escape-sequence scheme of the prompt
\* (llm.go 123-125): \033[32;1m ... \033[0m and \033[31;1m ... \033[0m
\* around plain text.
EscSeqs ==
    { <<EscAdd(<<"x">>)>>,
      <<EscDel(<<"y">>)>>,
      <<Plain(<<"G">>), EscAdd(<<"y">>)>>,
      <<EscDel(<<"x">>), Plain(<<"y">>)>>,
      <<Plain(<<"x">>), EscDel(<<NL>>), Plain(<<"y">>)>>,
      <<EscAdd(<<"x">>), EscDel(<<"y">>)>> }

EInit == segs \in EscSeqs /\ RStart

SpecEscape == EInit /\ [][RNext]_vars

-----------------------------------------------------------------------------
(* The network: what the provider may answer                               *)

\* at most MaxDeltas texts are sent in a stream
MaxDeltas == 2

HttpStatusOK == 200

Statuses == {HttpStatusOK, 401, 500}
NoBody == [form |-> "none", items |-> <<>>]
ErrBodies == {[form |-> "text", items |-> <<"rate limited">>],
              [form |-> "text", items |-> <<"bad key">>]}

EventMessageStart == "message_start"
EventMessageDelta == "message_delta"
EventMessageStop == "message_stop"
EventContentBlockStart == "content_block_start"
EventContentBlockDelta == "content_block_delta"
EventContentBlockStop == "content_block_stop"
EventPing == "ping"

EventTypes ==
    { EventMessageStart, EventMessageDelta, EventMessageStop,
      EventContentBlockStart, EventContentBlockDelta, EventContentBlockStop,
      EventPing, "unknown" }

ModelClaude == "claude"
ModelAzureOpenAI == "azure_openai"

\* the texts a delta may carry
DeltaTexts == {<<"a">>, <<"b", " ">>}

\* The payload of a data line.  form "bad" is anything json.Unmarshal rejects,
\* "done" the literal [DONE]; a "json" payload decodes to the fields given:
\* dtype and text are Delta.Type and Delta.Text (dtype "" : no delta at all),
\* choices are the Choices of an Azure chunk.
Payload(form, dtype, text, choices) ==
    [form |-> form, dtype |-> dtype, text |-> text, choices |-> choices]

BadPayload == Payload("bad", "", <<>>, <<>>)
DonePayload == Payload("done", "", <<>>, <<>>)

ClaudePayloads ==
    { BadPayload, Payload("json", "", <<>>, <<>>),
      Payload("json", "text_delta", <<>>, <<>>),
      Payload("json", "input_json_delta", <<"a">>, <<>>) }
    \cup {Payload("json", "text_delta", t, <<>>) : t \in DeltaTexts}

Choice(content, finish) == [content |-> content, finish |-> finish]

AzureChoiceLists ==
    { <<>>,
      <<Choice(<<"a">>, "")>>,
      <<Choice(<<" ", "b">>, "")>>,
      <<Choice(<<>>, "")>>,
      <<Choice(<<>>, "stop")>>,
      <<Choice(<<"a">>, "stop")>>,
      <<Choice(<<"a">>, ""), Choice(<<"b">>, "")>>,
      <<Choice(<<"a">>, "stop"), Choice(<<"b">>, "")>> }

AzurePayloads ==
    {BadPayload, DonePayload} \cup {Payload("json", "", <<>>, c) : c \in AzureChoiceLists}

\* A line of the body: blank, a comment (":..."), "event: <type>",
\* "data: <payload>", or a line with none of these prefixes.
Line(kind, type, payload) == [kind |-> kind, type |-> type, payload |-> payload]

NoPayload == Payload("none", "", <<>>, <<>>)

PlainLines == {Line(k, "", NoPayload) : k \in {"blank", "comment", "other"}}

ClaudeLines ==
    PlainLines
    \cup {Line("event", t, NoPayload) : t \in EventTypes}
    \cup {Line("data", "", p) : p \in ClaudePayloads}

AzureLines ==
    PlainLines
    \cup {Line("event", EventPing, NoPayload)}
    \cup {Line("data", "", p) : p \in AzurePayloads}

\* how many texts a line carries
TextsIn(line) ==
    (IF line.payload.text # <<>> THEN 1 ELSE 0)
    + Cardinality({i \in 1..Len(line.payload.choices) :
                      line.payload.choices[i].content # <<>>})

\* the bodies of a non-streaming answer with status 200
Block(type, text) == [type |-> type, text |-> text]

ClaudeBodies ==
    { [form |-> "bad", items |-> <<>>],
      [form |-> "json", items |-> <<>>],
      [form |-> "json", items |-> <<Block("text", <<"a">>)>>],
      [form |-> "json", items |-> <<Block("tool_use", <<>>), Block("text", <<"a">>)>>],
      [form |-> "json", items |-> <<Block("text", <<"a">>), Block("text", <<"b">>)>>],
      [form |-> "json", items |-> <<Block("text", <<" ", "a", NL>>)>>] }

AzureBodies ==
    { [form |-> "bad", items |-> <<>>],
      [form |-> "json", items |-> <<>>],
      [form |-> "json", items |-> <<<<"a">>>>],
      [form |-> "json", items |-> <<<<"a">>, <<"b">>>>],
      [form |-> "json", items |-> <<<<" ", "a", NL>>>>] }

Streaming200 == [status |-> HttpStatusOK, body |-> [form |-> "stream", items |-> <<>>]]

\* what a line of the Azure stream carries: the non-empty content and the
\* finish reason of each choice, in order, and the [DONE] terminator
DoneMark == <<"[DONE]">>
FinishMark == <<"finish_reason">>

RECURSIVE ChoiceItems(_)
ChoiceItems(cs) ==
    IF cs = <<>> THEN <<>>
    ELSE (IF Head(cs).content # <<>> THEN <<Head(cs).content>> ELSE <<>>)
         \o (IF Head(cs).finish # "" THEN <<FinishMark>> ELSE <<>>)
         \o ChoiceItems(Tail(cs))

SentItems(line) ==
    IF line.kind # "data" THEN <<>>
    ELSE IF line.payload.form = "done" THEN <<DoneMark>>
    ELSE IF line.payload.form = "json" THEN ChoiceItems(line.payload.choices)
    ELSE <<>>

\* the server sends the next line of the event stream, once the line before
\* it was read
ServerSend ==
    /\ exitCode = -1
    /\ resp = Streaming200
    /\ net = "open"
    /\ wire = <<>>
    /\ \E line \in (IF cfg.ActiveModel = ModelClaude THEN ClaudeLines ELSE AzureLines) :
          /\ sentDeltas + TextsIn(line) <= MaxDeltas
          /\ wire' = Append(wire, line)
          /\ sentDeltas' = sentDeltas + TextsIn(line)
          /\ sent' = IF cfg.ActiveModel = ModelAzureOpenAI
                     THEN sent \o SentItems(line) ELSE sent
    /\ UNCHANGED <<net, rvars, fvars, avars, mvars, prodvars>>
    /\ UNCHANGED <<requests, decoded, cbCalls, consumed, lastRead, stopRead>>

\* the server ends the body, or the connection breaks
ServerEnd ==
    /\ exitCode = -1
    /\ resp = Streaming200
    /\ net = "open"
    /\ ppc # "done"
    /\ net' \in {"eof", "err"}
    /\ UNCHANGED <<wire, sent, rvars, fvars, avars, mvars, prodvars, hvars>>

-----------------------------------------------------------------------------
(* The producer goroutine of the streaming handlers                        *)

\* the errors fmt.Errorf builds: what they name is kept in code, body (the
\* status code and the raw body), data (the offending data) and name
Error(kind, code, body, data, name) ==
    [kind |-> kind, code |-> code, body |-> body, data |-> data, name |-> name]

TransportError == Error("transport", 0, NoBody, "", "")
MutStatusErrorWithoutBody(r) == Error("status", r.status, NoBody, "", "")
StatusError(r) == Error("status", r.status, r.body, "", "")
DecodeError(p) == Error("decode", 0, NoBody, p.form, "")
ReadError == Error("read", 0, NoBody, "", "")
NoContentError == Error("nocontent", 0, NoBody, "", "")
UnsupportedError(m) == Error("unsupported", 0, NoBody, "", m)
LocalError(kind) == Error(kind, 0, NoBody, "", "")

\* frame of a producer step that touches only the producer's own variables
ProducerOnly ==
    /\ UNCHANGED <<rvars, fvars, avars, mvars, netvars>>
    /\ UNCHANGED <<requests, cbCalls, consumed, sentDeltas, lastRead, stopRead>>

\* client.Do(req): a transport failure, or a response
ProducerDo ==
    /\ exitCode = -1
    /\ ppc = "do"
    /\ requests' = requests + 1
    /\ \/ /\ resp' = NoResponse
          /\ perr' = TransportError
          /\ ppc' = "sendErr"
       \/ /\ \E s \in Statuses \ {HttpStatusOK}, b \in ErrBodies :
                resp' = [status |-> s, body |-> b]
          /\ perr' = perr
          /\ ppc' = "status"
       \/ /\ resp' = Streaming200
          /\ perr' = perr
          /\ ppc' = "status"
    /\ UNCHANGED <<eventType, ptext, pchoices, contentClosed>>
    /\ UNCHANGED <<rvars, fvars, avars, mvars, netvars>>
    /\ UNCHANGED <<decoded, cbCalls, consumed, sentDeltas, lastRead, stopRead>>

\* if resp.StatusCode != http.StatusOK: the body is read and reported
StatusOK(r) == r.status = HttpStatusOK

MutProducerStatusRetries ==
    /\ exitCode = -1
    /\ ppc = "status"
    /\ IF StatusOK(resp)
       THEN ppc' = "scan" /\ perr' = perr
       ELSE ppc' = "do" /\ perr' = perr
    /\ UNCHANGED <<resp, eventType, ptext, pchoices, contentClosed, decoded>>
    /\ ProducerOnly

ProducerStatus ==
    /\ exitCode = -1
    /\ ppc = "status"
    /\ IF StatusOK(resp)
       THEN ppc' = "scan" /\ perr' = perr
       ELSE ppc' = "sendErr" /\ perr' = StatusError(resp)
    /\ UNCHANGED <<resp, eventType, ptext, pchoices, contentClosed, decoded>>
    /\ ProducerOnly

MutClaudeDispatchNoStop(et, p) ==
    IF et = EventContentBlockDelta /\ p.dtype = "text_delta" /\ p.text # <<>>
    THEN "emit" ELSE "continue"

MutClaudeDispatchEmitsEmpty(et, p) ==
    CASE et = EventContentBlockDelta ->
             IF p.dtype = "text_delta" THEN "emit" ELSE "continue"
      [] et = EventMessageStop -> "stop"
      [] OTHER -> "continue"

MutClaudeDispatchAnyDelta(et, p) ==
    CASE et = EventContentBlockDelta ->
             IF p.text # <<>> THEN "emit" ELSE "continue"
      [] et = EventMessageStop -> "stop"
      [] OTHER -> "continue"

\* the switch on eventType, for a payload that was decoded
ClaudeDispatch(et, p) ==
    CASE et = EventContentBlockDelta ->
             IF p.dtype = "text_delta" /\ p.text # <<>> THEN "emit" ELSE "continue"
      [] et = EventMessageStop -> "stop"
      [] OTHER -> "continue"

MutClaudeDataParsesPing(et, p) ==
    IF p.form # "json" THEN "error" ELSE ClaudeDispatch(et, p)

\* a "data: " line: skipped under ping, else decoded and dispatched
ClaudeData(et, p) ==
    IF et = EventPing THEN "continue"
    ELSE IF p.form # "json" THEN "error"
    ELSE ClaudeDispatch(et, p)

MutClaudeLineIgnoresEvent(et, line) ==
    CASE line.kind = "data" -> ClaudeData(et, line.payload)
      [] OTHER -> "continue"

\* one line of the Claude stream
ClaudeLine(et, line) ==
    CASE line.kind = "event" -> "settype"
      [] line.kind = "data" -> ClaudeData(et, line.payload)
      [] OTHER -> "continue"

MutAzureDataSkipsBad(p) ==
    IF p.form = "done" THEN "stop"
    ELSE IF p.form # "json" THEN "continue"
    ELSE "choices"

MutAzureDataIgnoresDone(p) ==
    IF p.form = "done" THEN "continue"
    ELSE IF p.form # "json" THEN "error"
    ELSE "choices"

\* a "data: " line of the Azure stream
AzureData(p) ==
    IF p.form = "done" THEN "stop"
    ELSE IF p.form # "json" THEN "error"
    ELSE "choices"

\* one line of the Azure stream
AzureLine(line) ==
    IF line.kind = "data" THEN AzureData(line.payload) ELSE "continue"

MutCallbackArgTwice(text) == text \o text

\* the text handed to the callback for a decoded delta
CallbackArg(text) == text

\* scanner.Scan() yields a line: the body of the for loop
ProducerScan ==
    /\ exitCode = -1
    /\ ppc = "scan"
    /\ wire # <<>>
    /\ LET line == Head(wire)
           act == IF cfg.ActiveModel = ModelClaude
                  THEN ClaudeLine(eventType, line)
                  ELSE AzureLine(line)
       IN /\ wire' = Tail(wire)
          /\ lastRead' = [et |-> eventType, kind |-> line.kind,
                          form |-> line.payload.form, act |-> act]
          /\ eventType' = IF act = "settype" THEN line.type ELSE eventType
          /\ ppc' = CASE act = "emit" -> "sendContent"
                      [] act = "error" -> "sendErr"
                      [] act = "stop" -> "done"
                      [] act = "choices" -> "choice"
                      [] OTHER -> "scan"
          /\ ptext' = IF act = "emit" THEN line.payload.text ELSE ptext
          /\ decoded' = IF act = "emit" THEN Append(decoded, line.payload.text)
                        ELSE decoded
          /\ perr' = IF act = "error" THEN DecodeError(line.payload) ELSE perr
          /\ pchoices' = IF act = "choices" THEN line.payload.choices ELSE pchoices
          /\ contentClosed' = (contentClosed \/ act = "stop")
          /\ stopRead' = (stopRead \/ act = "stop")
    /\ UNCHANGED <<net, sent, resp, rvars, fvars, avars, mvars>>
    /\ UNCHANGED <<requests, cbCalls, consumed, sentDeltas>>

\* scanner.Scan() returns false: the body ended, or reading it failed
ProducerScanEnd ==
    /\ exitCode = -1
    /\ ppc = "scan"
    /\ wire = <<>>
    /\ net # "open"
    /\ IF net = "err"
       THEN ppc' = "sendErr" /\ perr' = ReadError
       ELSE ppc' = "done" /\ perr' = perr
    /\ UNCHANGED <<resp, eventType, ptext, pchoices, contentClosed, decoded>>
    /\ ProducerOnly

\* for _, choice := range streamResp.Choices: the next choice, its content
AzureChoice ==
    /\ exitCode = -1
    /\ ppc = "choice"
    /\ IF pchoices = <<>>
       THEN ppc' = "scan" /\ UNCHANGED <<ptext, decoded>>
       ELSE IF Head(pchoices).content # <<>>
            THEN /\ ppc' = "sendContent"
                 /\ ptext' = Head(pchoices).content
                 /\ decoded' = Append(decoded, Head(pchoices).content)
            ELSE ppc' = "finish" /\ UNCHANGED <<ptext, decoded>>
    /\ UNCHANGED <<resp, eventType, perr, pchoices, contentClosed>>
    /\ ProducerOnly

MutAzureFinishKeepsGoing ==
    /\ exitCode = -1
    /\ ppc = "finish"
    /\ IF Head(pchoices).finish # ""
       THEN /\ contentClosed' = TRUE
            /\ stopRead' = TRUE
       ELSE UNCHANGED <<contentClosed, stopRead>>
    /\ pchoices' = Tail(pchoices)
    /\ ppc' = "choice"
    /\ UNCHANGED <<resp, eventType, ptext, perr, decoded>>
    /\ UNCHANGED <<rvars, fvars, avars, mvars, netvars>>
    /\ UNCHANGED <<requests, cbCalls, consumed, sentDeltas, lastRead>>

\* if choice.FinishReason != "": close(contentChan) and return
AzureFinish ==
    /\ exitCode = -1
    /\ ppc = "finish"
    /\ IF Head(pchoices).finish # ""
       THEN /\ contentClosed' = TRUE
            /\ stopRead' = TRUE
            /\ ppc' = "done"
            /\ pchoices' = pchoices
       ELSE /\ pchoices' = Tail(pchoices)
            /\ ppc' = "choice"
            /\ UNCHANGED <<contentClosed, stopRead>>
    /\ UNCHANGED <<resp, eventType, ptext, perr, decoded>>
    /\ UNCHANGED <<rvars, fvars, avars, mvars, netvars>>
    /\ UNCHANGED <<requests, cbCalls, consumed, sentDeltas, lastRead>>

\* callback(text) is called ...
ProducerCallback ==
    /\ exitCode = -1
    /\ ppc = "callback"
    /\ cbCalls' = Append(cbCalls, CallbackArg(ptext))
    /\ ppc' = "sendOutput"
    /\ UNCHANGED <<resp, eventType, ptext, perr, pchoices, contentClosed>>
    /\ UNCHANGED <<rvars, fvars, avars, mvars, netvars>>
    /\ UNCHANGED <<requests, decoded, consumed, sentDeltas, lastRead, stopRead>>

\* ... and sends its argument on outputChan, where the range loop of the
\* renderer receives it (cmd/root.go 89 and 62)
ProducerSendOutput ==
    /\ exitCode = -1
    /\ ppc = "sendOutput"
    /\ ~outputClosed
    /\ RendererRecv(cbCalls[Len(cbCalls)])
    /\ consumed' = Append(consumed, cbCalls[Len(cbCalls)])
    /\ ppc' = IF cfg.ActiveModel = ModelClaude THEN "scan" ELSE "finish"
    /\ UNCHANGED <<resp, eventType, ptext, perr, pchoices, contentClosed>>
    /\ UNCHANGED <<fvars, avars, mvars, netvars>>
    /\ UNCHANGED <<requests, decoded, cbCalls, sentDeltas, lastRead, stopRead>>

-----------------------------------------------------------------------------
(* GetExplanation: the collector of the streaming handlers, and the         *)
(* non-streaming handlers                                                   *)

IsSpace(c) == c \in {" ", NL, "\t", "\r"}

\* strings.TrimSpace
RECURSIVE TrimLeft(_)
TrimLeft(s) == IF s # <<>> /\ IsSpace(Head(s)) THEN TrimLeft(Tail(s)) ELSE s

RECURSIVE TrimRight(_)
TrimRight(s) ==
    IF s # <<>> /\ IsSpace(s[Len(s)]) THEN TrimRight(Prefix(s, Len(s) - 1)) ELSE s

TrimSpace(s) == TrimRight(TrimLeft(s))

\* frame of a step of the main goroutine that touches only its own variables
MainOnly == UNCHANGED <<rvars, fvars, avars, prodvars, netvars, hvars>>

MutCollectContentKeepsLast ==
    /\ exitCode = -1
    /\ mainPc = "collect"
    /\ ppc = "sendContent"
    /\ fullResponse' = ptext
    /\ ppc' = "callback"
    /\ UNCHANGED <<mainPc, cfg, diffOutput, geText, geErr, stderr, exitCode>>
    /\ UNCHANGED <<resp, eventType, ptext, perr, pchoices, contentClosed>>
    /\ UNCHANGED <<rvars, fvars, avars, netvars, hvars>>

\* case content, ok := <-contentChan, ok: the producer's send is received
CollectContent ==
    /\ exitCode = -1
    /\ mainPc = "collect"
    /\ ppc = "sendContent"
    /\ fullResponse' = fullResponse \o ptext
    /\ ppc' = "callback"
    /\ UNCHANGED <<mainPc, cfg, diffOutput, geText, geErr, stderr, exitCode>>
    /\ UNCHANGED <<resp, eventType, ptext, perr, pchoices, contentClosed>>
    /\ UNCHANGED <<rvars, fvars, avars, netvars, hvars>>

\* case content, ok := <-contentChan, !ok: the channel was closed
CollectClosed ==
    /\ exitCode = -1
    /\ mainPc = "collect"
    /\ contentClosed
    /\ geText' = TrimSpace(fullResponse)
    /\ geErr' = NoError
    /\ mainPc' = "afterGE"
    /\ UNCHANGED <<cfg, diffOutput, fullResponse, stderr, exitCode>>
    /\ MainOnly

\* case err := <-errChan: the producer's error is received, and the producer
\* returns
CollectError ==
    /\ exitCode = -1
    /\ mainPc = "collect"
    /\ ppc = "sendErr"
    /\ geText' = <<>>
    /\ geErr' = perr
    /\ mainPc' = "afterGE"
    /\ ppc' = "done"
    /\ UNCHANGED <<cfg, diffOutput, fullResponse, stderr, exitCode>>
    /\ UNCHANGED <<resp, eventType, ptext, perr, pchoices, contentClosed>>
    /\ UNCHANGED <<rvars, fvars, avars, netvars, hvars>>

\* the text a non-streaming handler extracts from a decoded body
ClaudeExtract(body) ==
    IF Len(body.items) > 0 /\ body.items[1].type = "text"
    THEN [text |-> body.items[1].text, err |-> NoError]
    ELSE [text |-> <<>>, err |-> NoContentError]

AzureExtract(body) ==
    IF Len(body.items) > 0
    THEN [text |-> body.items[1], err |-> NoError]
    ELSE [text |-> <<>>, err |-> NoContentError]

\* the result of a non-streaming handler for a response
NonStreamingResult(model, r) ==
    IF ~StatusOK(r) THEN [text |-> <<>>, err |-> StatusError(r)]
    ELSE IF r.body.form # "json"
         THEN [text |-> <<>>, err |-> Error("decode", 0, NoBody, "", "")]
         ELSE IF model = ModelClaude THEN ClaudeExtract(r.body) ELSE AzureExtract(r.body)

\* handleClaudeNonStreamingResponse / handleAzureOpenAINonStreamingResponse
NonStreamingRequest ==
    /\ exitCode = -1
    /\ mainPc = "request"
    /\ requests' = requests + 1
    /\ \/ /\ resp' = NoResponse
          /\ geText' = <<>>
          /\ geErr' = TransportError
       \/ \E r \in [status : Statuses \ {HttpStatusOK}, body : ErrBodies]
                   \cup [status : {HttpStatusOK},
                         body : IF cfg.ActiveModel = ModelClaude
                                THEN ClaudeBodies ELSE AzureBodies] :
             /\ resp' = r
             /\ geText' = NonStreamingResult(cfg.ActiveModel, r).text
             /\ geErr' = NonStreamingResult(cfg.ActiveModel, r).err
    /\ mainPc' = "afterGE"
    /\ UNCHANGED <<cfg, diffOutput, fullResponse, stderr, exitCode>>
    /\ UNCHANGED <<ppc, eventType, ptext, perr, pchoices, contentClosed>>
    /\ UNCHANGED <<rvars, fvars, avars, netvars>>
    /\ UNCHANGED <<decoded, cbCalls, consumed, sentDeltas, lastRead, stopRead>>

MutRouteDefaultsToAzure(c) ==
    IF c.Streaming THEN "streaming" ELSE "nonStreaming"

\* which handler GetExplanation and callClaudeAPI / callAzureOpenAI select
Route(c) ==
    IF c.ActiveModel \notin {ModelClaude, ModelAzureOpenAI} THEN "unsupported"
    ELSE IF c.Streaming THEN "streaming" ELSE "nonStreaming"

\* GetExplanation up to the handler: the streaming handlers start the producer
\* goroutine and go on to collect
CallGetExplanation ==
    /\ exitCode = -1
    /\ mainPc = "callGE"
    /\ CASE Route(cfg) = "unsupported" ->
              /\ geText' = <<>>
              /\ geErr' = UnsupportedError(cfg.ActiveModel)
              /\ mainPc' = "afterGE"
              /\ ppc' = ppc
         [] Route(cfg) = "streaming" ->
              /\ ppc' = "do"
              /\ mainPc' = "collect"
              /\ UNCHANGED <<geText, geErr>>
         [] Route(cfg) = "nonStreaming" ->
              /\ mainPc' = "request"
              /\ UNCHANGED <<geText, geErr, ppc>>
    /\ UNCHANGED <<cfg, diffOutput, fullResponse, stderr, exitCode>>
    /\ UNCHANGED <<resp, eventType, ptext, perr, pchoices, contentClosed>>
    /\ UNCHANGED <<rvars, fvars, avars, netvars, hvars>>

-----------------------------------------------------------------------------
(* rootCmd.Run                                                              *)

Configs == [ActiveModel : {ModelClaude, ModelAzureOpenAI, "other"},
            Streaming : BOOLEAN, hasKey : BOOLEAN]

NoDifferences == "No differences found."

\* diffOutput before RunGitDiff has returned
NotRun == "(git diff has not run)"

MutDieExitZero(msg, err) ==
    /\ stderr' = Append(stderr, [msg |-> msg, err |-> err])
    /\ exitCode' = 0
    /\ mainPc' = "exited"

\* fmt.Fprintf(os.Stderr, ...) and os.Exit(1)
Die(msg, err) ==
    /\ stderr' = Append(stderr, [msg |-> msg, err |-> err])
    /\ exitCode' = 1
    /\ mainPc' = "exited"

\* the state of everything but the command line when the process starts
Start ==
    /\ mainPc = "loadConfig"
    /\ cfg = [ActiveModel |-> ModelClaude, Streaming |-> TRUE, hasKey |-> FALSE]
    /\ diffOutput = NotRun
    /\ fullResponse = <<>>
    /\ geText = <<>>
    /\ geErr = NoError
    /\ stderr = <<>>
    /\ exitCode = -1
    /\ ppc = "none"
    /\ resp = NoResponse
    /\ eventType = ""
    /\ ptext = <<>>
    /\ perr = NoError
    /\ pchoices = <<>>
    /\ contentClosed = FALSE
    /\ wire = <<>>
    /\ net = "open"
    /\ sent = <<>>
    /\ requests = 0
    /\ decoded = <<>>
    /\ cbCalls = <<>>
    /\ consumed = <<>>
    /\ sentDeltas = 0
    /\ lastRead = NoRead
    /\ stopRead = FALSE
    /\ rpc = "idle"
    /\ rchunk = <<>>
    /\ buffer = <<>>
    /\ lastProcessed = <<>>
    /\ term = <<>>
    /\ outputClosed = FALSE
    /\ wrote = <<>>
    /\ flushedBefore = <<>>
    /\ segs = <<>>
    /\ src = <<>>
    /\ pos = 0
    /\ nchunks = 0

\* a run without extra arguments, at the entry of Run
Init ==
    /\ Start
    /\ argv = <<>>
    /\ args = <<>>
    /\ gitArgs = <<>>
    /\ apc = "parsed"

\* config.LoadOrCreate()
LoadConfig ==
    /\ exitCode = -1
    /\ apc = "parsed"
    /\ mainPc = "loadConfig"
    /\ \/ /\ Die("Error loading config", LocalError("config"))
          /\ cfg' = cfg
       \/ /\ cfg' \in Configs
          /\ mainPc' = "checkKey"
          /\ UNCHANGED <<stderr, exitCode>>
    /\ UNCHANGED <<diffOutput, fullResponse, geText, geErr>>
    /\ MainOnly

\* if cfg.ClaudeAPIKey == "": config.PromptForAPIKey(), config.Save(cfg)
CheckKey ==
    /\ exitCode = -1
    /\ mainPc = "checkKey"
    /\ \/ /\ cfg.hasKey
          /\ mainPc' = "gitDiff"
          /\ UNCHANGED <<cfg, stderr, exitCode>>
       \/ /\ ~cfg.hasKey
          /\ Die("Error getting API key", LocalError("prompt"))
          /\ cfg' = cfg
       \/ /\ ~cfg.hasKey
          /\ Die("Error saving config", LocalError("save"))
          /\ cfg' = [cfg EXCEPT !.hasKey = TRUE]
       \/ /\ ~cfg.hasKey
          /\ cfg' = [cfg EXCEPT !.hasKey = TRUE]
          /\ mainPc' = "gitDiff"
          /\ UNCHANGED <<stderr, exitCode>>
    /\ UNCHANGED <<diffOutput, fullResponse, geText, geErr>>
    /\ MainOnly

\* gitArgs := append([]string{"diff"}, args...)
GitArgs(a) == <<"diff">> \o a

\* diff.RunGitDiff(args)
GitDiff ==
    /\ exitCode = -1
    /\ mainPc = "gitDiff"
    /\ \/ /\ Die("Error running git diff", LocalError("gitdiff"))
          /\ diffOutput' = diffOutput
       \/ /\ diffOutput' \in {"", "diff --git"}
          /\ mainPc' = "checkDiff"
          /\ UNCHANGED <<stderr, exitCode>>
    /\ gitArgs' = GitArgs(args)
    /\ UNCHANGED <<argv, args, apc>>
    /\ UNCHANGED <<cfg, fullResponse, geText, geErr>>
    /\ UNCHANGED <<rvars, fvars, prodvars, netvars, hvars>>

MutNeedsExplanationAlways(d) == TRUE

\* whether Run goes on to ask for an explanation
NeedsExplanation(d) == d # ""

\* if diffOutput == "": "No differences found." and return
CheckDiff ==
    /\ exitCode = -1
    /\ mainPc = "checkDiff"
    /\ IF NeedsExplanation(diffOutput)
       THEN /\ mainPc' = "startRenderer"
            /\ UNCHANGED <<term, exitCode>>
       ELSE /\ term' = term \o <<NoDifferences, NL>>
            /\ exitCode' = 0
            /\ mainPc' = "exited"
    /\ UNCHANGED <<cfg, diffOutput, fullResponse, geText, geErr, stderr>>
    /\ UNCHANGED <<rpc, rchunk, buffer, lastProcessed, outputClosed, wrote, flushedBefore>>
    /\ UNCHANGED <<fvars, avars, prodvars, netvars, hvars>>

\* outputChan := make(chan string); go func() { ... }()
StartRenderer ==
    /\ exitCode = -1
    /\ mainPc = "startRenderer"
    /\ rpc' = "recv"
    /\ mainPc' = "callGE"
    /\ UNCHANGED <<cfg, diffOutput, fullResponse, geText, geErr, stderr, exitCode>>
    /\ UNCHANGED <<rchunk, buffer, lastProcessed, term, outputClosed, wrote, flushedBefore>>
    /\ UNCHANGED <<fvars, avars, prodvars, netvars, hvars>>

\* GetExplanation has returned: the error is written to standard error
\* (os.Exit follows as a step of its own, the renderer goroutine is still
\* running), or the output channel is closed
AfterGetExplanation ==
    /\ exitCode = -1
    /\ mainPc = "afterGE"
    /\ IF geErr # NoError
       THEN /\ stderr' = Append(stderr, [msg |-> "Error getting explanation from Claude",
                                         err |-> geErr])
            /\ mainPc' = "exit1"
            /\ UNCHANGED <<exitCode, outputClosed>>
       ELSE /\ outputClosed' = TRUE
            /\ mainPc' = "return"
            /\ UNCHANGED <<stderr, exitCode>>
    /\ UNCHANGED <<cfg, diffOutput, fullResponse, geText, geErr>>
    /\ UNCHANGED <<rpc, rchunk, buffer, lastProcessed, term, wrote, flushedBefore>>
    /\ UNCHANGED <<fvars, avars, prodvars, netvars, hvars>>

\* os.Exit(1) after the error of GetExplanation was written
ExitOnError ==
    /\ exitCode = -1
    /\ mainPc = "exit1"
    /\ exitCode' = 1
    /\ mainPc' = "exited"
    /\ UNCHANGED <<cfg, diffOutput, fullResponse, geText, geErr, stderr>>
    /\ MainOnly

\* Run returns, and with it main: the process ends with code 0
Return ==
    /\ exitCode = -1
    /\ mainPc = "return"
    /\ exitCode' = 0
    /\ mainPc' = "exited"
    /\ UNCHANGED <<cfg, diffOutput, fullResponse, geText, geErr, stderr>>
    /\ MainOnly

Next ==
    \/ LoadConfig
    \/ CheckKey
    \/ GitDiff
    \/ CheckDiff
    \/ StartRenderer
    \/ CallGetExplanation
    \/ NonStreamingRequest
    \/ CollectContent
    \/ CollectClosed
    \/ CollectError
    \/ AfterGetExplanation
    \/ ExitOnError
    \/ Return
    \/ ProducerDo
    \/ ProducerStatus
    \/ ProducerScan
    \/ ProducerScanEnd
    \/ AzureChoice
    \/ AzureFinish
    \/ ProducerCallback
    \/ ProducerSendOutput
    \/ RendererProcess
    \/ RendererFinish
    \/ ServerSend
    \/ ServerEnd

Spec == Init /\ [][Next]_vars

-----------------------------------------------------------------------------
(* The command line: cobra's flag parsing before Run, up to RunGitDiff      *)

\* at most MaxArgs extra arguments are given
MaxArgs == 2

\* the flags init declares on rootCmd, in the forms that take no further
\* argument
BoolFlags == {"--patch", "-p", "--stat", "--name-only", "--name-status",
              "--verbose", "-v"}
ValueFlags == {"--unified=3", "-U3", "--diff-filter=A"}

\* arguments that do not start with a dash: paths and revisions
Positionals == {"HEAD~1", "main.go"}

\* the arguments tried: declared flags, a revision, a path, the separator and
\* a flag that is not declared
ArgTokens == {"--stat", "-p", "-U3", "HEAD~1", "main.go", "--", "--cached"}

ArgLists == UNION {[1..n -> ArgTokens] : n \in 0..MaxArgs}

\* cobra's ParseFlags: declared flags are consumed wherever they stand, "--"
\* ends the flags and is dropped, an undeclared flag is an error; what is
\* left are the args of Run
RECURSIVE ParseFlags(_)
ParseFlags(rest) ==
    IF rest = <<>> THEN [ok |-> TRUE, args |-> <<>>]
    ELSE IF Head(rest) = "--" THEN [ok |-> TRUE, args |-> Tail(rest)]
    ELSE IF Head(rest) \in BoolFlags \cup ValueFlags THEN ParseFlags(Tail(rest))
    ELSE IF Head(rest) \in Positionals
         THEN LET r == ParseFlags(Tail(rest))
              IN [ok |-> r.ok, args |-> IF r.ok THEN <<Head(rest)>> \o r.args ELSE <<>>]
    ELSE [ok |-> FALSE, args |-> <<>>]

AInit ==
    /\ Start
    /\ argv \in ArgLists
    /\ args = <<>>
    /\ gitArgs = <<>>
    /\ apc = "start"

\* rootCmd.Execute(): the flags are parsed, then Run is called with the rest
AParse ==
    /\ apc = "start"
    /\ args' = ParseFlags(argv).args
    /\ apc' = IF ParseFlags(argv).ok THEN "parsed" ELSE "error"
    /\ UNCHANGED <<argv, gitArgs>>
    /\ UNCHANGED <<rvars, fvars, mvars, prodvars, netvars, hvars>>

ANext == AParse \/ LoadConfig \/ CheckKey \/ GitDiff

SpecArgs == AInit /\ [][ANext]_vars

-----------------------------------------------------------------------------
(* Properties of the renderer                                              *)

IsSpan(g) == g.k \in {"add", "del"}

\* the text is made of plain characters and well-formed spans only
WellFormed == \A i \in 1..Len(segs) : segs[i].k \in {"plain", "add", "del"}

\* the terminal output of the run in which the whole text is one chunk
SingleChunkOutput(text) == NewPart(<<>>, Resolve(text)) \o <<NL>>

\* the rendering the specification asks for: each span replaced by its inner
\* text wrapped in the colour code and a reset, everything else unchanged
RenderedSeg(g) ==
    CASE g.k = "add" -> Sprint(GreenCode, g.t)
      [] g.k = "del" -> Sprint(RedCode, g.t)
      [] OTHER -> g.t

RECURSIVE Rendered(_)
Rendered(gs) ==
    IF gs = <<>> THEN <<>> ELSE RenderedSeg(Head(gs)) \o Rendered(Tail(gs))

NoTagIn(text) ==
    /\ ~Contains(text, ADD_OPEN)
    /\ ~Contains(text, ADD_CLOSE)
    /\ ~Contains(text, DEL_OPEN)
    /\ ~Contains(text, DEL_CLOSE)

\* C1: for a text of plain characters and well-formed spans, whatever the
\* chunking, the terminal output at the end of the stream is the output of the
\* run in which the whole text arrives as one chunk.
C1_ChunkingEquivalence ==
    (rpc = "done" /\ WellFormed) => term = SingleChunkOutput(src)

\* C2: a text with well-formed spans delivered as a single chunk is written
\* with every span replaced by its colour-wrapped inner text, and no literal
\* tag is left in the output.
C2_SingleChunkRendering ==
    (/\ rpc = "done"
     /\ nchunks = 1
     /\ WellFormed
     /\ \E i \in 1..Len(segs) : IsSpan(segs[i]))
    => (term = Rendered(segs) \o <<NL>> /\ NoTagIn(term))

\* C3: the flushed text never gets shorter, and every write is exactly the
\* not-yet-written suffix of the currently resolved text: what was written
\* before followed by the write is the resolved text, so that no character of
\* it is written twice.
C3_NoRewrite ==
    /\ Len(flushedBefore) <= Len(lastProcessed)
    /\ (rpc = "recv" /\ wrote # <<>>) => term = Resolve(buffer)

\* the closing marker of an opening marker
CloseOf(open) ==
    CASE open = ADD_OPEN -> ADD_CLOSE
      [] open = DEL_OPEN -> DEL_CLOSE
      [] open = GREEN_START -> GREEN_END
      [] open = RED_START -> RED_END

\* segment i is an opening marker that nothing closes, followed by plain text
UnmatchedOpen(i) ==
    /\ segs[i].k = "open"
    /\ \A j \in (i + 1)..Len(segs) : segs[j].k = "plain"

\* C4: when the stream ends while an opening marker has no closing marker,
\* the marker and the text after it end the terminal output, literally.
C4_UnmatchedOpenLiteral ==
    \A i \in 1..Len(segs) :
        (rpc = "done" /\ UnmatchedOpen(i))
        => HasSuffix(term, Flatten(SubSeq(segs, i, Len(segs))) \o <<NL>>)

-----------------------------------------------------------------------------
(* Properties of the stream decoders and of the run                        *)

IsClaude == cfg.ActiveModel = ModelClaude
IsAzure == cfg.ActiveModel = ModelAzureOpenAI

\* the step in which the producer reads the line at the head of the wire
ReadsLine == ppc = "scan" /\ wire # <<>> /\ wire' = Tail(wire)

\* GetExplanation has returned
Returned == mainPc \in {"afterGE", "exit1", "return", "exited"}

\* C5: in the Claude decoder a data line read while the event type is ping is
\* neither parsed nor surfaced: the step that reads it sends no chunk, calls
\* no callback, raises no error and goes on to the next line, whatever the
\* payload.
C5_PingDataIgnored ==
    [][(IsClaude /\ ReadsLine /\ Head(wire).kind = "data" /\ eventType = EventPing)
       => /\ ppc' = "scan"
          /\ decoded' = decoded
          /\ cbCalls' = cbCalls
          /\ perr' = perr
          /\ contentClosed' = contentClosed
          /\ eventType' = eventType]_vars

\* a malformed data line was read under ping and the decoder went on
C5_Witness ==
    /\ IsClaude
    /\ lastRead.kind = "data"
    /\ lastRead.et = EventPing
    /\ lastRead.form = "bad"
    /\ ppc = "scan"
    /\ perr = NoError

\* the last line read is a decodable data line under message_stop
StopEventRead ==
    /\ IsClaude
    /\ lastRead.kind = "data"
    /\ lastRead.et = EventMessageStop
    /\ lastRead.form = "json"

\* C6: once a message_stop event is read from the Claude stream the producer
\* has closed the content channel and returned; all the collector can do is
\* return without error, and no line after it is read, yields a chunk, a
\* callback call or an error.
C6_StopTerminates ==
    /\ [](StopEventRead
          => /\ ppc = "done"
             /\ contentClosed
             /\ perr = NoError
             /\ Returned => (geErr = NoError /\ geText = TrimSpace(fullResponse)))
    /\ [][StopEventRead
          => /\ ~ReadsLine
             /\ decoded' = decoded
             /\ cbCalls' = cbCalls
             /\ consumed' = consumed
             /\ ppc' = "done"
             /\ perr' = perr]_vars

\* the stop was read, another line followed it on the wire, and
\* GetExplanation has returned the text without error
C6_Witness ==
    /\ StopEventRead
    /\ wire # <<>>
    /\ mainPc = "exited"
    /\ exitCode = 0
    /\ geText # <<>>

\* the last line read is a data line with malformed JSON, not under ping
BadDataRead ==
    /\ lastRead.kind = "data"
    /\ lastRead.form = "bad"
    /\ IsClaude => lastRead.et # EventPing

\* C7: when a data line that is not under ping carries malformed JSON, the
\* decoder stops reading, GetExplanation returns the error naming the data
\* and an empty string, and no later chunk reaches the content channel or
\* the callback; for the Claude and for the Azure decoder.
C7_MalformedIsFatal ==
    /\ [](BadDataRead
          => /\ ppc \in {"sendErr", "done"}
             /\ perr.kind = "decode" /\ perr.data = "bad"
             /\ ~contentClosed
             /\ mainPc = "collect" => ppc = "sendErr"
             /\ Returned => (geErr = perr /\ geText = <<>>))
    /\ [][BadDataRead
          => /\ ~ReadsLine
             /\ decoded' = decoded
             /\ cbCalls' = cbCalls
             /\ consumed' = consumed]_vars

\* the Azure decoder emitted a chunk, then read a malformed data line, and
\* GetExplanation returned the error and no text
C7_Witness ==
    /\ IsAzure
    /\ BadDataRead
    /\ decoded # <<>>
    /\ fullResponse # <<>>
    /\ Returned
    /\ geErr.kind = "decode"
    /\ geText = <<>>

\* the provider answered with a status other than 200
Non200 == resp.status \notin {0, HttpStatusOK}

\* C8: when the provider answers with a status other than 200, in either
\* mode and for either provider, GetExplanation returns an error holding the
\* status code and the raw body, the callback is never called and nothing of
\* an explanation is printed, and the run exits with code 1 and that error on
\* standard error.
C8_Non200Reported ==
    Non200
    => /\ cbCalls = <<>>
       /\ decoded = <<>>
       /\ term = <<>>
       /\ mainPc # "return"
       /\ Returned => /\ geErr.kind = "status"
                       /\ geErr.code = resp.status
                       /\ geErr.body = resp.body
                       /\ geText = <<>>
       /\ mainPc = "exited" => /\ exitCode = 1
                                /\ Len(stderr) = 1
                                /\ stderr[1].err = geErr

\* a streaming run against Azure that got status 500 has exited
C8_Witness ==
    /\ IsAzure
    /\ cfg.Streaming
    /\ resp.status = 500
    /\ mainPc = "exited"
    /\ exitCode = 1

\* C9: when the diff command returns empty text the run prints the 'no
\* differences' message and ends with code 0; GetExplanation is not called,
\* no HTTP request is issued and no renderer is started.
C9_EmptyDiffShortCircuits ==
    diffOutput = ""
    => /\ mainPc \in {"checkDiff", "exited"}
       /\ requests = 0
       /\ rpc = "idle"
       /\ ppc = "none"
       /\ stderr = <<>>
       /\ mainPc = "exited" => (exitCode = 0 /\ term = <<NoDifferences, NL>>)

\* the run with an empty diff has ended
C9_Witness == diffOutput = "" /\ mainPc = "exited"

\* C10: the chunks the renderer goroutine has received are always a prefix of
\* the non-empty text deltas decoded so far, each once and in stream order,
\* under every interleaving; the renderer is at most one chunk behind.
C10_ChunksInOrder ==
    /\ IsPrefixOf(consumed, decoded)
    /\ Len(decoded) <= Len(consumed) + 1

\* two different chunks have reached the renderer
C10_Witness ==
    /\ Len(consumed) = 2
    /\ consumed[1] # consumed[2]
    /\ rpc = "process"

-----------------------------------------------------------------------------
(* Properties of the non-streaming path, of termination and of exit codes   *)

\* GetExplanation was called, issued its request and returned
ExplanationReturned == requests = 1 /\ Returned

\* C11: when streaming is disabled the run starts neither the stream decoder
\* nor the renderer, and a run that ends with code 0 has printed the text
\* GetExplanation returned.
C11_NonStreamingPrintsText ==
    (~cfg.Streaming /\ requests = 1 /\ mainPc = "exited" /\ exitCode = 0)
    => /\ rpc = "idle"
       /\ ppc = "none"
       /\ geText # <<>>
       /\ Contains(term, geText)

\* the text of the blocks of type "text", in order
RECURSIVE ConcatText(_)
ConcatText(items) ==
    IF items = <<>> THEN <<>>
    ELSE (IF Head(items).type = "text" THEN Head(items).text ELSE <<>>)
         \o ConcatText(Tail(items))

\* C12: in non-streaming mode with a decodable 200 response from Claude, the
\* text GetExplanation returns is the concatenation, in order, of the text of
\* all blocks of type "text" (compared up to surrounding white space).
C12_AllTextBlocks ==
    (IsClaude /\ ~cfg.Streaming /\ ExplanationReturned
        /\ resp.status = HttpStatusOK /\ resp.body.form = "json")
    => TrimSpace(geText) = TrimSpace(ConcatText(resp.body.items))

\* C13: the text GetExplanation returns on success has no leading or trailing
\* white space, in both modes and for both providers.
C13_ReturnedTextTrimmed ==
    (ExplanationReturned /\ geErr = NoError) => geText = TrimSpace(geText)

\* C14: whenever a streaming run has ended, after a clean end of the stream or
\* after an error, the renderer has written its final newline.
C14_FinalNewline ==
    (cfg.Streaming /\ requests = 1 /\ mainPc = "exited")
    => (rpc = "done" /\ HasSuffix(term, <<NL>>))

\* the errors of the steps of Run before GetExplanation
LocalKinds == {"config", "prompt", "save", "gitdiff"}

\* C15: a run that ended has code 1 with exactly the error of the failing step
\* on standard error (config loading, key prompt, config save, git diff, or
\* GetExplanation), or code 0 with nothing on standard error after an empty
\* diff or a successful GetExplanation; an error of GetExplanation is never
\* followed by the normal return.
C15_ExitCodes ==
    /\ mainPc = "exited"
       => \/ /\ exitCode = 1
             /\ Len(stderr) = 1
             /\ \/ stderr[1].err.kind \in LocalKinds /\ requests = 0
                \/ stderr[1].err = geErr /\ geErr # NoError
          \/ /\ exitCode = 0
             /\ stderr = <<>>
             /\ geErr = NoError
             /\ diffOutput = "" \/ requests = 1
    /\ geErr # NoError => mainPc \in {"afterGE", "exit1", "exited"}
    /\ mainPc = "exit1" => (geErr # NoError /\ stderr = <<[msg |-> "Error getting explanation from Claude", err |-> geErr]>>)
    /\ mainPc # "exited" => exitCode = -1
    /\ mainPc \notin {"exit1", "exited"} => stderr = <<>>

\* a non-streaming run whose request failed in transport has exited with 1
C15_Witness ==
    /\ mainPc = "exited"
    /\ exitCode = 1
    /\ ~cfg.Streaming
    /\ geErr = TransportError
    /\ stderr[1].err = TransportError

\* C17: no failure is retried: at most one HTTP request is issued in a run,
\* and once the producer has an error it reads no further line, decodes no
\* further delta, issues no request and only hands the error over; once
\* GetExplanation has an error it has returned.
C17_NoRetry ==
    /\ [](/\ requests <= 1
          /\ perr # NoError => ppc \in {"sendErr", "done"}
          /\ geErr # NoError => (mainPc \in {"afterGE", "exit1", "exited"}
                                 /\ ppc \in {"none", "done"}))
    /\ [][(perr # NoError \/ geErr # NoError)
          => /\ requests' = requests
             /\ ~ReadsLine
             /\ decoded' = decoded
             /\ cbCalls' = cbCalls]_vars

\* a streaming run got a non-200 status, made one request and has exited
C17_Witness ==
    /\ cfg.Streaming
    /\ resp.status = 401
    /\ requests = 1
    /\ mainPc = "exited"
    /\ geErr.kind = "status"

-----------------------------------------------------------------------------
(* Properties of the Azure stream decoder                                   *)

\* the items before the first of the given marks
RECURSIVE BeforeMark(_, _)
BeforeMark(items, marks) ==
    IF items = <<>> \/ Head(items) \in marks THEN <<>>
    ELSE <<Head(items)>> \o BeforeMark(Tail(items), marks)

\* the items that are content
TextsOf(items) == SelectSeq(items, LAMBDA x : x \notin {DoneMark, FinishMark})

HasMark(items, mark) == \E i \in 1..Len(items) : items[i] = mark

\* C18 as stated: once the Azure decoder has closed the sequence and [DONE]
\* was sent, the chunks emitted are the non-empty contents of all choices of
\* all data lines sent before [DONE].
C18_AllBeforeDone ==
    (IsAzure /\ contentClosed /\ HasMark(sent, DoneMark))
    => decoded = TextsOf(BeforeMark(sent, {DoneMark}))

\* C18, amended: the Azure decoder ends the sequence at the first [DONE] data
\* line or the first choice with a non-empty finish reason; the chunks
\* emitted are always a prefix of the non-empty contents sent before that
\* point, all of them once the sequence is closed, each handed once to the
\* callback and the renderer; nothing is read or emitted afterwards.
C18_AzureTermination ==
    /\ [](IsAzure => IsPrefixOf(decoded, BeforeMark(sent, {DoneMark, FinishMark})))
    /\ [](IsAzure /\ contentClosed
            => /\ HasMark(sent, DoneMark) \/ HasMark(sent, FinishMark)
               /\ decoded = BeforeMark(sent, {DoneMark, FinishMark})
               /\ cbCalls = decoded
               /\ consumed = decoded
               /\ ppc = "done")
    /\ [][(IsAzure /\ stopRead)
            => /\ ~ReadsLine
               /\ decoded' = decoded
               /\ cbCalls' = cbCalls
               /\ consumed' = consumed]_vars

\* a choice with content and a finish reason ended the sequence, a second
\* choice of the same line had content, and [DONE] was sent afterwards
C18_Witness ==
    /\ IsAzure
    /\ contentClosed
    /\ sent = <<<<"a">>, FinishMark, <<"b">>, DoneMark>>
    /\ decoded = <<<<"a">>>>
    /\ Returned
    /\ geText = <<"a">>

-----------------------------------------------------------------------------
(* Properties of the command line                                           *)

\* the arguments other than the separator
WithoutSeparator(a) == SelectSeq(a, LAMBDA x : x # "--")

\* C16: once RunGitDiff has built its command, the command is git diff
\* followed by every extra argument of the command line, declared flags
\* included (the separator "--" apart).
C16_ArgsPassedThrough ==
    (apc = "parsed" /\ gitArgs # <<>>)
    => gitArgs = <<"diff">> \o WithoutSeparator(argv)

-----------------------------------------------------------------------------
(* Properties of withholding                                                *)

\* the opening markers with their closing markers
MarkerPairs ==
    { <<ADD_OPEN, ADD_CLOSE>>, <<DEL_OPEN, DEL_CLOSE>>,
      <<GREEN_START, GREEN_END>>, <<RED_START, RED_END>> }

\* an opening marker stands at offset i of raw and no closing marker follows
UnclosedAt(raw, i) ==
    \E pr \in MarkerPairs :
        /\ HasPrefix(Drop(raw, i), pr[1])
        /\ ~Contains(Drop(raw, i + Len(pr[1])), pr[2])

\* C19: while the stream is open and the accumulated raw text holds an
\* opening marker with no closing marker after it, what was written to the
\* terminal is within the resolution of the text before that marker: nothing
\* from the marker onward was written.
C19_UnclosedWithheld ==
    \A i \in 0..Len(buffer) :
        (rpc \in {"recv", "process"} /\ UnclosedAt(buffer, i))
        => IsPrefixOf(term, convertEscapeSequences(Prefix(buffer, i)))

\* the recognized marker tokens: both schemes, both colours, open and close
LitGreen == LitEsc \o <<"[", "3", "2", ";", "1", "m">>
LitRed == LitEsc \o <<"[", "3", "1", ";", "1", "m">>
LitReset == LitEsc \o <<"[", "0", "m">>

MarkerTokens ==
    { ADD_OPEN, ADD_CLOSE, DEL_OPEN, DEL_CLOSE, LitGreen, LitRed, LitReset,
      GREEN_START, GREEN_END, RED_START, RED_END }

\* C20: for every marker token and every non-empty proper prefix p of it,
\* cleanIncompleteEscapeSequences applied to an accumulated text ending in p
\* removes at least the whole of p.
C20_TrimTableExhaustive ==
    \A tok \in MarkerTokens : \A n \in 1..(Len(tok) - 1) :
        HasSuffix(buffer, Prefix(tok, n))
        => Len(cleanIncompleteEscapeSequences(buffer)) <= Len(buffer) - n

-----------------------------------------------------------------------------
(* Further properties of the renderer                                       *)

\* C21: after every chunk is processed the flushed text is at most as long
\* as the resolved text of the raw text accumulated so far.
C21_FlushedWithinResolved ==
    rpc = "recv" => Len(lastProcessed) <= Len(Resolve(buffer))

\* the text holds no marker and no literal \033: plain characters only
PlainOnly == \A i \in 1..Len(segs) : segs[i].k = "plain"

\* C25: text without marker tokens and without a literal \033 sequence is on
\* the terminal verbatim and complete when the stream has ended, whatever the
\* chunking.
C25_PlainVerbatim ==
    (rpc = "done" /\ PlainOnly) => term = src \o <<NL>>

-----------------------------------------------------------------------------
(* Further properties of the Claude stream decoder                          *)

\* the producer reads a data line of the Claude stream
ReadsData == IsClaude /\ ReadsLine /\ Head(wire).kind = "data"

\* ... a decodable one under content_block_delta whose delta is a text_delta
ReadsTextDelta ==
    /\ ReadsData
    /\ eventType = EventContentBlockDelta
    /\ Head(wire).payload.form = "json"
    /\ Head(wire).payload.dtype = "text_delta"

\* C22 as stated: every text_delta under content_block_delta is emitted as a
\* chunk, whatever its size, zero characters included.
C22_EveryTextDeltaEmitted ==
    [][ReadsTextDelta
       => /\ decoded' = Append(decoded, Head(wire).payload.text)
          /\ ppc' = "sendContent"]_vars

\* C22, amended: a text_delta with non-empty text is emitted as exactly one
\* chunk, one send on the content channel followed by one callback call with
\* the same text, completed before the next line is read; a text_delta with
\* empty text emits nothing.
C22_NonEmptyTextDeltaEmitted ==
    /\ [][ReadsTextDelta
          => IF Head(wire).payload.text # <<>>
             THEN /\ decoded' = Append(decoded, Head(wire).payload.text)
                  /\ ptext' = Head(wire).payload.text
                  /\ ppc' = "sendContent"
             ELSE /\ decoded' = decoded
                  /\ cbCalls' = cbCalls
                  /\ ppc' = "scan"]_vars
    /\ [](IsClaude
            => /\ IsPrefixOf(cbCalls, decoded)
               /\ Len(decoded) <= Len(cbCalls) + 1
               /\ ppc \in {"scan", "sendErr", "done"} => cbCalls = decoded)

\* two text deltas were emitted, each with its callback call
C22_Witness ==
    /\ IsClaude
    /\ lastRead.et = EventContentBlockDelta
    /\ lastRead.act = "emit"
    /\ ppc = "scan"
    /\ Len(cbCalls) = 2
    /\ cbCalls = decoded

\* C23: in the Claude decoder the event type starts empty, changes only when
\* an event line is read, then to the type of that line, and every data line
\* is dispatched under the type current when it is read; a decodable data
\* line read before any event line has no effect.
C23_EventTypePersists ==
    /\ [][IsClaude
          => /\ eventType' # eventType => (ReadsLine /\ Head(wire).kind = "event")
             /\ (ReadsLine /\ Head(wire).kind = "event")
                   => (eventType' = Head(wire).type /\ ppc' = "scan")
             /\ ReadsData
                   => /\ lastRead'.et = eventType
                      /\ lastRead'.act = ClaudeData(eventType, Head(wire).payload)
             /\ (ReadsData /\ eventType = "" /\ Head(wire).payload.form = "json")
                   => (ppc' = "scan" /\ decoded' = decoded /\ perr' = perr
                       /\ contentClosed' = contentClosed)]_vars
    /\ [](ppc \in {"none", "do", "status"} => eventType = "")

\* a data line carrying a text delta was read before any event line, and
\* nothing was emitted
C23_Witness ==
    /\ IsClaude
    /\ lastRead.kind = "data"
    /\ lastRead.et = ""
    /\ lastRead.form = "json"
    /\ lastRead.act = "continue"
    /\ sentDeltas = 1
    /\ wire = <<>>
    /\ decoded = <<>>
    /\ ppc = "scan"

\* the event types whose data lines are only decoded
SilentTypes ==
    {EventMessageStart, EventContentBlockStart, EventContentBlockStop, EventMessageDelta}

\* C24: a decodable data line under message_start, content_block_start,
\* content_block_stop or message_delta, or under content_block_delta with a
\* delta that is not a text_delta, emits no chunk, calls no callback, does
\* not end the sequence and raises no error.
C24_SilentEvents ==
    [][(/\ ReadsData
        /\ Head(wire).payload.form = "json"
        /\ \/ eventType \in SilentTypes
           \/ /\ eventType = EventContentBlockDelta
              /\ Head(wire).payload.dtype # "text_delta")
       => /\ ppc' = "scan"
          /\ decoded' = decoded
          /\ cbCalls' = cbCalls
          /\ contentClosed' = contentClosed
          /\ perr' = perr
          /\ eventType' = eventType]_vars

\* a delta that is not a text_delta but carries text was read under
\* content_block_delta, and nothing was emitted
C24_Witness ==
    /\ IsClaude
    /\ lastRead.kind = "data"
    /\ lastRead.et = EventContentBlockDelta
    /\ lastRead.form = "json"
    /\ lastRead.act = "continue"
    /\ sentDeltas = 1
    /\ wire = <<>>
    /\ decoded = <<>>
    /\ perr = NoError
    /\ ~contentClosed

-----------------------------------------------------------------------------
(* Properties of the goroutines of a streaming run                          *)

\* the error of GetExplanation was received and written to standard error
ErrorReported == geErr # NoError /\ stderr # <<>>

\* C26: once the producer's error was received from the error channel and
\* reported, nothing more is written to the terminal.
C26_NoWriteAfterError == [][ErrorReported => term' = term]_vars

\* C28: in streaming mode the collector never waits on a producer that has
\* returned without closing the content channel: GetExplanation returns also
\* when the body ends before the stop.
C28_CollectorNeverStranded ==
    (mainPc = "collect" /\ ppc = "done") => contentClosed

\* the chunks received, one after the other
RECURSIVE JoinChunks(_)
JoinChunks(cs) == IF cs = <<>> THEN <<>> ELSE Head(cs) \o JoinChunks(Tail(cs))

\* C29: when a streaming run has ended with code 0, the renderer goroutine
\* has processed every chunk the callback handed over and has written the
\* final newline.
C29_AllChunksPrinted ==
    (mainPc = "exited" /\ exitCode = 0 /\ cbCalls # <<>>)
    => /\ rpc = "done"
       /\ buffer = JoinChunks(cbCalls)
       /\ HasSuffix(term, <<NL>>)

\* the producer goroutine is inside the stream callback
InCallback == ppc \in {"callback", "sendOutput"}

\* the producer goroutine is about to send on the content channel
SendsContent == ppc = "sendContent"

\* C30: the content channel is closed by the producer's last step (so it is
\* closed once and nothing is sent on it afterwards), and once GetExplanation
\* has returned the producer is not running: the callback is not invoked
\* again, and the output channel is closed only when no send on it is pending.
C30_ChannelDiscipline ==
    /\ [](contentClosed => ppc = "done")
    /\ [](Returned => (ppc \in {"none", "done"} /\ ~InCallback /\ ~SendsContent))
    /\ [](outputClosed => (Returned /\ ~InCallback))
    /\ [][contentClosed => (contentClosed' /\ ppc' = "done")]_vars
    /\ [][Returned => (cbCalls' = cbCalls /\ consumed' = consumed)]_vars
    /\ [][outputClosed' /\ ~outputClosed => (ppc \in {"none", "done"} /\ consumed = cbCalls)]_vars

\* both deltas went through the callback, the producer closed the content
\* channel and Run closed the output channel
C30_Witness ==
    /\ contentClosed /\ outputClosed
    /\ Len(cbCalls) = MaxDeltas /\ consumed = cbCalls

-----------------------------------------------------------------------------
(* The escape-sequence scheme                                               *)

\* the text asked for: each literal \033 replaced by the escape byte,
\* everything else as it was sent
EscRenderedSeg(g) ==
    CASE g.k = "escadd" -> GreenCode \o g.t \o ResetCode
      [] g.k = "escdel" -> RedCode \o g.t \o ResetCode
      [] OTHER -> g.t

RECURSIVE EscRendered(_)
EscRendered(gs) ==
    IF gs = <<>> THEN <<>> ELSE EscRenderedSeg(Head(gs)) \o EscRendered(Tail(gs))

\* the chunks received so far end inside a literal \033
SplitInsideEsc ==
    \E n \in 1..(Len(LitEsc) - 1) :
        /\ pos + (Len(LitEsc) - n) <= Len(src)
        /\ pos >= n
        /\ SubSeq(src, pos - n + 1, pos - n + Len(LitEsc)) = LitEsc

\* C27: for a text in the escape-sequence scheme the conversion replaces each
\* literal \033 by the escape byte and changes nothing else, and whatever the
\* chunking, what is written after each chunk is a prefix of the converted
\* text: nothing of a \033 cut by a chunk boundary is written before it is
\* whole.
C27_EscapeSchemePrefix ==
    /\ convertEscapeSequences(src) = EscRendered(segs)
    /\ rpc # "done" => /\ IsPrefixOf(term, EscRendered(segs))
                       /\ term = lastProcessed
    /\ rpc = "recv" => /\ IsPrefixOf(Resolve(buffer), term)
                       /\ (SplitInsideEsc => ~Contains(term, <<"\\">>))
    /\ rpc = "done" => term = EscRendered(segs) \o <<NL>>

\* a chunk boundary fell inside a literal \033 after text was written
C27_Witness ==
    /\ rpc = "recv" /\ SplitInsideEsc
    /\ nchunks >= 2
    /\ term # <<>>
    /\ HasSuffix(buffer, <<"\\", "0", "3">>)

-----------------------------------------------------------------------------
(* The collector and the callback                                           *)

\* a streaming call of GetExplanation has returned without error
StreamedCleanly == cfg.Streaming /\ requests = 1 /\ Returned /\ geErr = NoError

\* C31: the collector and the callback see the same chunks in the same order
\* (the collector at most one ahead, while the callback of that chunk is still
\* to run), and when a streaming call has returned without error its result
\* is the concatenation of the chunks passed to the callback, with the white
\* space at both ends removed.
C31_ResultIsCallbackChunks ==
    /\ cfg.Streaming =>
          \/ fullResponse = JoinChunks(cbCalls)
          \/ ppc = "callback" /\ fullResponse = JoinChunks(cbCalls) \o ptext
    /\ StreamedCleanly => geText = TrimSpace(JoinChunks(cbCalls))

\* a clean return after two chunks, where trimming removed white space
C31_Witness ==
    /\ StreamedCleanly
    /\ Len(cbCalls) = MaxDeltas
    /\ geText # JoinChunks(cbCalls)
    /\ geText # <<>>

-----------------------------------------------------------------------------
(* The renderer at the end of the stream, and its trimming                  *)

\* the end of the raw text that cleanIncompleteEscapeSequences holds back
Withheld(raw) == Drop(raw, Len(cleanIncompleteEscapeSequences(raw)))

\* C32: when the output channel was closed and the loop has ended, the end of
\* the raw text that was held back as a possible incomplete marker has been
\* written too: the terminal ends with it and the final newline.
C32_WithheldFlushedAtClose ==
    (rpc = "done" /\ buffer = src)
    => HasSuffix(term, convertEscapeSequences(Withheld(buffer)) \o <<NL>>)

\* C33: until the loop ends, what was written to the terminal, taken as one
\* text, is lastProcessed, and the resolved text of the raw text so far begins
\* with the text that was flushed before the chunk.
C33_WrittenIsLastProcessed ==
    /\ rpc # "done" => term = lastProcessed
    /\ (rpc = "recv" /\ Len(flushedBefore) < Len(Resolve(buffer)))
       => IsPrefixOf(flushedBefore, Resolve(buffer))

\* C34: cleanIncompleteEscapeSequences is idempotent: the text it returns for
\* the raw text received so far is returned unchanged when given to it again.
C34_CleanIdempotent ==
    LET once == cleanIncompleteEscapeSequences(buffer)
    IN cleanIncompleteEscapeSequences(once) = once

-----------------------------------------------------------------------------
(* The choice of the model                                                  *)

\* the configured active model is none of the two that are supported
Unsupported == cfg.ActiveModel \notin {ModelClaude, ModelAzureOpenAI}

\* C35: with an active model that is neither "claude" nor "azure_openai",
\* the call of GetExplanation returns in one step with the unsupported-model
\* error naming the model and the empty string; no request is ever issued, no
\* producer goroutine is started and the callback is never called.
C35_UnsupportedModel ==
    /\ [](Unsupported => /\ requests = 0
                         /\ ppc = "none"
                         /\ cbCalls = <<>> /\ consumed = <<>> /\ decoded = <<>>
                         /\ mainPc \notin {"collect", "request"})
    /\ []((Unsupported /\ mainPc \in {"afterGE", "exit1"})
          => (geText = <<>> /\ geErr = UnsupportedError(cfg.ActiveModel)))
    /\ [][(Unsupported /\ mainPc = "callGE" /\ mainPc' # mainPc)
          => /\ mainPc' = "afterGE"
             /\ geText' = <<>>
             /\ geErr' = UnsupportedError(cfg.ActiveModel)
             /\ geErr' # NoError]_vars

\* the run with an unsupported model has ended with the error reported
C35_Witness ==
    /\ Unsupported
    /\ mainPc = "exited" /\ exitCode = 1
    /\ stderr = <<[msg |-> "Error getting explanation from Claude",
                   err |-> UnsupportedError("other")]>>
    /\ requests = 0 /\ cbCalls = <<>>

=============================================================================
